---- MODULE Spec2Model ----
(***************************************************************************)
(* Model of frontend/assets/js/app.js: the upload / preview / result       *)
(* controller of the diagnosis page.  Every action is one run-to-completion*)
(* task of the browser's event loop (an event handler, a promise           *)
(* continuation, a FileReader load event or a timer callback).             *)
(* Percentages are held in tenths: 873 stands for 87.3.                    *)
(***************************************************************************)
EXTENDS Integers, Sequences, FiniteSets, Bags, TLC

\* ------------------------------------------------------------------ bounds
MaxSelections == 2
MaxReloads    == 1      \* page reloads

\* ------------------------------------------------------- program constants
allowedTypes == {"image/png", "image/jpeg", "image/jpg"}
maxSize      == 10 * 1024 * 1024

TypeMessage    == "Please select a valid image file (PNG, JPG, or JPEG)."
SizeMessage    == "File size must be less than 10MB."
GenericMessage == "Failed to analyze the image. Please try again."

BadgeLoaded  == "Ready (model loaded)"
BadgeNoModel == "Ready (no model)"
BadgeOffline == "Offline"

\* ------------------------------------------------------------------ inputs
\* the File objects a selection with the given ordinal can carry
FilesOf(n) ==
    { [id |-> n, type |-> "image/png",  size |-> 2048],
      [id |-> n, type |-> "image/jpeg", size |-> maxSize],
      [id |-> n, type |-> "image/gif",  size |-> 2048],
      [id |-> n, type |-> "image/png",  size |-> maxSize + 1],
      [id |-> n, type |-> "image/jpg",  size |-> maxSize + 1] }

\* a file list: empty, one file, or two files of which the second differs
\* in validity from the first
FileLists(n) ==
    {<<>>} \cup { <<f>> : f \in FilesOf(n) }
           \cup { << [id |-> n, type |-> "image/png", size |-> 2048],
                     [id |-> n + 100, type |-> "application/pdf", size |-> 2048] >>,
                  << [id |-> n, type |-> "application/pdf", size |-> 2048],
                     [id |-> n + 100, type |-> "image/png", size |-> 2048] >> }

Statuses == {200, 500}

\* the instants new Date() can return, as clock ticks
Instants == {0, 1}

\* bodies of a 2xx answer of POST /predict, after response.json()
ResultNormal ==
    [predicted_class |-> "Normal", confidence |-> 873,
     probabilities |-> [Covid |-> 42, Pneumonia |-> 85, Normal |-> 873]]
ResultCovid ==
    [predicted_class |-> "Covid", confidence |-> 900,
     probabilities |-> [Covid |-> 900, Pneumonia |-> 60, Normal |-> 40]]
WellFormedResults == {ResultNormal, ResultCovid}

JObject(v) == [type |-> "object", value |-> v]
JNull      == [type |-> "null"]

NoConfidence ==
    [predicted_class |-> "Normal",
     probabilities |-> [Covid |-> 42, Pneumonia |-> 85, Normal |-> 873]]
NoNormal ==
    [predicted_class |-> "Normal", confidence |-> 873,
     probabilities |-> [Covid |-> 42, Pneumonia |-> 85]]

NoCovid ==
    [predicted_class |-> "Normal", confidence |-> 873,
     probabilities |-> [Pneumonia |-> 85, Normal |-> 873]]
NoPneumonia ==
    [predicted_class |-> "Normal", confidence |-> 873,
     probabilities |-> [Covid |-> 42, Normal |-> 873]]
IncompleteResults == {NoConfidence, NoCovid, NoPneumonia, NoNormal}

PredictBodies ==
    { JObject(r) : r \in WellFormedResults \cup IncompleteResults }
      \cup {JNull}

\* bodies of a 2xx answer of GET /
StatusBodies ==
    { JObject([model_loaded |-> TRUE]), JObject([model_loaded |-> FALSE]),
      JObject([status |-> "ok"]), JNull }

\* ------------------------------------------------- numbers and their text
Digit == <<"0", "1", "2", "3", "4", "5", "6", "7", "8", "9">>

RECURSIVE IntChars(_)
IntChars(k) ==
    IF k < 10 THEN <<Digit[k + 1]>>
    ELSE IntChars(k \div 10) \o <<Digit[(k % 10) + 1]>>

\* a toString that loses the fraction digit
NumberToStringTruncated(n) == IntChars(n \div 10)

\* Number.prototype.toString of n/10: the shortest decimal text
NumberToString(n) ==
    IntChars(n \div 10)
      \o (IF n % 10 = 0 THEN <<>> ELSE <<".", Digit[(n % 10) + 1]>>)

\* Number.prototype.toFixed(1) of n/10: always one fraction digit
toFixed1(n) == IntChars(n \div 10) \o <<".", Digit[(n % 10) + 1]>>

RECURSIVE Join(_)
Join(chars) ==
    IF chars = <<>> THEN "" ELSE Head(chars) \o Join(Tail(chars))

DigitValue(c) == (CHOOSE i \in 1..10 : Digit[i] = c) - 1

RECURSIVE ParseInt(_, _)
ParseInt(chars, acc) ==
    IF chars = <<>> THEN acc
    ELSE ParseInt(Tail(chars), acc * 10 + DigitValue(Head(chars)))

DotAt(chars) ==
    IF \E i \in 1..Len(chars) : chars[i] = "."
    THEN CHOOSE i \in 1..Len(chars) : chars[i] = "."
    ELSE 0

\* the number a JSON number literal denotes, in tenths
ParseNumber(chars) ==
    IF DotAt(chars) = 0 THEN 10 * ParseInt(chars, 0)
    ELSE 10 * ParseInt(SubSeq(chars, 1, DotAt(chars) - 1), 0)
           + ParseInt(SubSeq(chars, DotAt(chars) + 1, Len(chars)), 0)

\* ------------------------------------------------------------- JSON text
\* A JSON object text is the sequence of its members <<key, token>> in
\* serialisation order; a token is <<"s", string>>, <<"n", digits>> or
\* <<"o", members>>.
ResultKeys == <<"predicted_class", "confidence", "probabilities", "timestamp">>
ProbKeys   == <<"Covid", "Pneumonia", "Normal">>

EncodeNumber(v) == <<"n", NumberToString(v)>>

RECURSIVE StringifyNumbers(_, _)
StringifyNumbers(obj, keys) ==
    IF keys = <<>> THEN <<>>
    ELSE (IF Head(keys) \in DOMAIN obj
          THEN << <<Head(keys), EncodeNumber(obj[Head(keys)])>> >>
          ELSE <<>>)
         \o StringifyNumbers(obj, Tail(keys))

EncodeMember(key, v) ==
    CASE key = "confidence"    -> EncodeNumber(v)
      [] key = "probabilities" -> <<"o", StringifyNumbers(v, ProbKeys)>>
      [] OTHER                 -> <<"s", v>>

RECURSIVE StringifyMembers(_, _)
StringifyMembers(obj, keys) ==
    IF keys = <<>> THEN <<>>
    ELSE (IF Head(keys) \in DOMAIN obj
          THEN << <<Head(keys), EncodeMember(Head(keys), obj[Head(keys)])>> >>
          ELSE <<>>)
         \o StringifyMembers(obj, Tail(keys))

\* JSON.stringify of a result object carrying a timestamp
JSONstringify(obj) == StringifyMembers(obj, ResultKeys)

LastIndexOf(members, k) ==
    CHOOSE i \in 1..Len(members) :
        /\ members[i][1] = k
        /\ \A j \in (i + 1)..Len(members) : members[j][1] # k

RECURSIVE JSONparse(_)
ParseToken(tok) ==
    CASE tok[1] = "n" -> ParseNumber(tok[2])
      [] tok[1] = "o" -> JSONparse(tok[2])
      [] OTHER        -> tok[2]

\* JSON.parse of an object text
JSONparse(members) ==
    [k \in {members[i][1] : i \in 1..Len(members)} |->
        ParseToken(members[LastIndexOf(members, k)][2])]

\* new Date().toISOString() at clock tick t
toISOString(t) == "1970-01-01T00:00:00.00" \o Join(IntChars(t)) \o "Z"

\* { ...result, timestamp: ts }
WithTimestamp(result, ts) ==
    [k \in (DOMAIN result) \cup {"timestamp"} |->
        IF k = "timestamp" THEN ts ELSE result[k]]

\* the object without its timestamp member
WithoutTimestamp(obj) == [k \in (DOMAIN obj) \ {"timestamp"} |-> obj[k]]

\* ------------------------------------------------------------------- DOM
\* class "hidden" of the elements, their text, the bars' style.width
InitialDom ==
    [ loadingHidden        |-> TRUE,
      resultsSectionHidden |-> TRUE,
      resultCardHidden     |-> TRUE,
      errorMessageHidden   |-> TRUE,
      imagePreviewHidden   |-> TRUE,
      dragover             |-> FALSE,
      errorText            |-> "",
      previewImg           |-> 0,
      predictionText       |-> "",
      confidenceText       |-> "",
      covidProb            |-> "",
      pneumoniaProb        |-> "",
      normalProb           |-> "",
      covidBar             |-> "",
      pneumoniaBar         |-> "",
      normalBar            |-> "",
      badgeText            |-> "",
      badgeClasses         |-> {} ]

showError(d, message) ==
    [d EXCEPT !.errorText = message,
              !.errorMessageHidden = FALSE,
              !.resultsSectionHidden = TRUE]

\* a showLoading that leaves an earlier error message on screen
showLoadingKeepsError(d) ==
    [d EXCEPT !.loadingHidden = FALSE,
              !.resultsSectionHidden = FALSE,
              !.resultCardHidden = TRUE]

showLoading(d) ==
    [d EXCEPT !.loadingHidden = FALSE,
              !.resultsSectionHidden = FALSE,
              !.resultCardHidden = TRUE,
              !.errorMessageHidden = TRUE]

hideLoading(d) == [d EXCEPT !.loadingHidden = TRUE]

highlight(d)   == [d EXCEPT !.dragover = TRUE]
unhighlight(d) == [d EXCEPT !.dragover = FALSE]

\* a validateFile without the size check
validateFileTypeOnly(d, file) ==
    IF file.type \notin allowedTypes
    THEN [ok |-> FALSE, dom |-> showError(d, TypeMessage)]
    ELSE [ok |-> TRUE, dom |-> d]

\* validateFile: the verdict and the DOM it leaves
validateFile(d, file) ==
    IF file.type \notin allowedTypes
    THEN [ok |-> FALSE, dom |-> showError(d, TypeMessage)]
    ELSE IF file.size > maxSize
    THEN [ok |-> FALSE, dom |-> showError(d, SizeMessage)]
    ELSE [ok |-> TRUE, dom |-> d]

\* an animateProgressBar whose callback runs ahead of those armed before it
animateProgressBarJumpsQueue(w, bar, percentage) ==
    [dom    |-> [w.dom EXCEPT ![bar] = "0%"],
     timers |-> <<[bar |-> bar, percentage |-> percentage]>> \o w.timers]

\* animateProgressBar: the bar is reset and a 100 ms timer is armed
animateProgressBar(w, bar, percentage) ==
    [dom    |-> [w.dom EXCEPT ![bar] = "0%"],
     timers |-> Append(w.timers, [bar |-> bar, percentage |-> percentage])]

\* the number of statements of displayResults that complete before one
\* throws a TypeError; 6 when none throws
Completes(body) ==
    IF body.type = "null" THEN 0
    ELSE IF "confidence" \notin DOMAIN body.value THEN 1
    ELSE IF "probabilities" \notin DOMAIN body.value THEN 2
    ELSE IF "Covid" \notin DOMAIN body.value.probabilities THEN 2
    ELSE IF "Pneumonia" \notin DOMAIN body.value.probabilities THEN 3
    ELSE IF "Normal" \notin DOMAIN body.value.probabilities THEN 4
    ELSE 6

Percent(n) == Join(toFixed1(n)) \o "%"

\* a displayResults that shows the card and the section before it fills them
displayResultsRevealsFirst(d, t, body) ==
    LET r     == body.value
        shown == [d EXCEPT !.resultCardHidden = FALSE,
                           !.resultsSectionHidden = FALSE]
        w0    == [dom |-> [shown EXCEPT
                             !.predictionText = r.predicted_class,
                             !.confidenceText =
                                 "Confidence: " \o Percent(r.confidence),
                             !.covidProb = Percent(r.probabilities.Covid),
                             !.pneumoniaProb = Percent(r.probabilities.Pneumonia),
                             !.normalProb = Percent(r.probabilities.Normal)],
                  timers |-> t]
        w1    == animateProgressBar(w0, "covidBar", r.probabilities.Covid)
        w2    == animateProgressBar(w1, "pneumoniaBar", r.probabilities.Pneumonia)
        w3    == animateProgressBar(w2, "normalBar", r.probabilities.Normal)
    IN  IF Completes(body) < 6
        THEN [threw |-> TRUE, dom |-> shown, timers |-> t]
        ELSE [threw |-> FALSE, dom |-> w3.dom, timers |-> w3.timers]

\* displayResults on the DOM d with pending timers t
displayResults(d, t, body) ==
    LET n  == Completes(body)
        r  == body.value
        d1 == IF n >= 1
              THEN [d EXCEPT !.predictionText =
                       IF "predicted_class" \in DOMAIN r
                       THEN r.predicted_class ELSE ""]
              ELSE d
        d2 == IF n >= 2
              THEN [d1 EXCEPT !.confidenceText =
                       "Confidence: " \o Percent(r.confidence)]
              ELSE d1
        d3 == IF n >= 3
              THEN [d2 EXCEPT !.covidProb = Percent(r.probabilities.Covid)]
              ELSE d2
        d4 == IF n >= 4
              THEN [d3 EXCEPT !.pneumoniaProb = Percent(r.probabilities.Pneumonia)]
              ELSE d3
        d5 == IF n >= 5
              THEN [d4 EXCEPT !.normalProb = Percent(r.probabilities.Normal)]
              ELSE d4
        w0 == [dom |-> d5, timers |-> t]
        w1 == animateProgressBar(w0, "covidBar", r.probabilities.Covid)
        w2 == animateProgressBar(w1, "pneumoniaBar", r.probabilities.Pneumonia)
        w3 == animateProgressBar(w2, "normalBar", r.probabilities.Normal)
    IN  IF n < 6
        THEN [threw |-> TRUE, dom |-> d5, timers |-> t]
        ELSE [threw  |-> FALSE,
              dom    |-> [w3.dom EXCEPT !.resultCardHidden = FALSE,
                                        !.resultsSectionHidden = FALSE],
              timers |-> w3.timers]

\* ----------------------------------------------------------- localStorage
\* the value under the key 'lastDiagnosis'
EmptyStorage == [present |-> FALSE, text |-> <<>>]

NothingLogged == [message |-> "", data |-> <<>>]

\* a saveLastDiagnosis that keeps a value already stored
saveLastDiagnosisKeepsFirst(ls, result, ts, writeOk) ==
    IF writeOk /\ ~ls.present
    THEN [threw   |-> FALSE,
          storage |-> [present |-> TRUE,
                       text |-> JSONstringify(WithTimestamp(result, ts))]]
    ELSE [threw   |-> FALSE,
          storage |-> ls]

\* a saveLastDiagnosis without its try / catch
saveLastDiagnosisThrows(ls, result, ts, writeOk) ==
    IF writeOk
    THEN [threw   |-> FALSE,
          storage |-> [present |-> TRUE,
                       text |-> JSONstringify(WithTimestamp(result, ts))]]
    ELSE [threw   |-> TRUE,
          storage |-> ls]

\* saveLastDiagnosis: setItem throws when writeOk is FALSE
saveLastDiagnosis(ls, result, ts, writeOk) ==
    IF writeOk
    THEN [threw   |-> FALSE,
          storage |-> [present |-> TRUE,
                       text |-> JSONstringify(WithTimestamp(result, ts))]]
    ELSE [threw   |-> FALSE,
          storage |-> ls]

\* a loadLastDiagnosis that removes an entry it cannot read
loadLastDiagnosisClears(ls, fault) ==
    IF fault = "getItem" \/ (fault = "parse" /\ ls.present)
    THEN [threw   |-> FALSE,
          storage |-> EmptyStorage,
          logged  |-> [message |-> "Failed to load last diagnosis:",
                       data |-> <<>>]]
    ELSE IF ls.present
    THEN [threw   |-> FALSE,
          storage |-> ls,
          logged  |-> [message |-> "Last diagnosis:",
                       data |-> <<JSONparse(ls.text)>>]]
    ELSE [threw |-> FALSE, storage |-> ls, logged |-> NothingLogged]

\* loadLastDiagnosis: fault is "none", "getItem" (the storage access
\* throws) or "parse" (JSON.parse throws on the stored text)
loadLastDiagnosis(ls, fault) ==
    IF fault = "getItem" \/ (fault = "parse" /\ ls.present)
    THEN [threw   |-> FALSE,
          storage |-> ls,
          logged  |-> [message |-> "Failed to load last diagnosis:",
                       data |-> <<>>]]
    ELSE IF ls.present
    THEN [threw   |-> FALSE,
          storage |-> ls,
          logged  |-> [message |-> "Last diagnosis:",
                       data |-> <<JSONparse(ls.text)>>]]
    ELSE [threw |-> FALSE, storage |-> ls, logged |-> NothingLogged]

\* ------------------------------------------------------------------ state
VARIABLES
    page,          \* "unloaded" until DOMContentLoaded has run init, then "ready"
    dom,           \* the elements app.js holds
    timers,        \* armed setTimeout callbacks of animateProgressBar, in order
    readers,       \* files whose FileReader has not yet delivered its event
    net,           \* POST /predict requests not yet answered (a bag)
    calls,         \* one record per invocation of predictXray
    returned,      \* which invocation returned last, on what answer, and how
    probe,         \* the invocation of checkServerStatus
    localStorage,  \* the value under 'lastDiagnosis'
    logged,        \* what loadLastDiagnosis wrote to the console
    unhandled,     \* functions an exception escaped from
    selections,    \* number of file lists handed to handleFiles
    lastFiles,     \* the most recent of them
    accepted,      \* number of files that passed validateFile
    postsIssued,   \* number of POST /predict requests issued
    lastSuccess,   \* the last prediction whose result was displayed, if any
    lastStored,    \* the last prediction whose result was stored, if any
    reloads        \* number of page reloads

vars == <<page, dom, timers, readers, net, calls, returned, probe,
          localStorage, logged, unhandled, selections, lastFiles, accepted, postsIssued,
          lastSuccess, lastStored, reloads>>

World == [dom |-> dom, timers |-> timers, storage |-> localStorage]

NoReturn == [call |-> 0, body |-> <<>>, outcome |-> "none", saved |-> "none"]

NoProbe == [pc |-> "none", answer |-> 0, body |-> <<>>]

Init ==
    /\ page = "unloaded"
    /\ dom = InitialDom
    /\ timers = <<>>
    /\ readers = {}
    /\ net = EmptyBag
    /\ calls = <<>>
    /\ returned = NoReturn
    /\ probe = NoProbe
    /\ localStorage = EmptyStorage
    /\ logged = NothingLogged
    /\ unhandled = {}
    /\ selections = 0
    /\ lastFiles = <<>>
    /\ accepted = 0
    /\ postsIssued = 0
    /\ lastSuccess = <<>>
    /\ lastStored = <<>>
    /\ reloads = 0

\* ------------------------------------------------------------- predictXray
\* a predictXray that sends its request twice
predictXrayRequestsTwice(r, file) ==
    SetToBag({[req |-> r, file |-> file.id]})
      (+) SetToBag({[req |-> r, file |-> file.id]})

\* the fetch of line 145: the requests one invocation puts on the network
predictXrayRequests(r, file) == SetToBag({[req |-> r, file |-> file.id]})

\* a catch block that only logs
predictXrayCatchLogsOnly(w) == w

predictXrayCatch(w) == [w EXCEPT !.dom = showError(@, GenericMessage)]

predictXrayFinally(w) == [w EXCEPT !.dom = hideLoading(@)]

\* hideLoading at the end of the try block instead of in finally
predictXrayRejectedNoFinally(w) == predictXrayCatch(w)

\* fetch rejected, the status is not 2xx, or response.json() rejected
predictXrayRejected(w) == predictXrayFinally(predictXrayCatch(w))

\* response.json() resolved with body: lines 154-163
predictXrayResolved(w, body, ts, writeOk) ==
    LET shown == displayResults(w.dom, w.timers, body)
        w1    == [w EXCEPT !.dom = shown.dom, !.timers = shown.timers]
        saved == saveLastDiagnosis(w1.storage, body.value, ts, writeOk)
        w2    == [w1 EXCEPT !.storage = saved.storage]
    IN  IF shown.threw
        THEN [world |-> predictXrayFinally(predictXrayCatch(w1)),
              outcome |-> "render", saved |-> "none"]
        ELSE IF saved.threw
        THEN [world |-> predictXrayFinally(predictXrayCatch(w2)),
              outcome |-> "save", saved |-> "failed"]
        ELSE [world |-> predictXrayFinally(w2),
              outcome |-> "ok",
              saved |-> IF writeOk THEN "written" ELSE "failed"]

\* -------------------------------------------------------- checkServerStatus
\* a checkServerStatus without its catch block
checkServerStatusNoCatch(d) == [threw |-> TRUE, dom |-> d]

checkServerStatusCatch(d) ==
    [threw |-> FALSE,
     dom |-> [d EXCEPT !.badgeText = BadgeOffline,
                       !.badgeClasses = @ \cup {"text-red-600"}]]

\* res.json() resolved with body: lines 40-47
checkServerStatusResolved(d, body) ==
    IF body.type = "null" THEN checkServerStatusCatch(d)
    ELSE IF "model_loaded" \in DOMAIN body.value /\ body.value.model_loaded
    THEN [threw |-> FALSE,
          dom |-> [d EXCEPT !.badgeText = BadgeLoaded,
                            !.badgeClasses = @ \cup {"text-green-600"}]]
    ELSE [threw |-> FALSE,
          dom |-> [d EXCEPT !.badgeText = BadgeNoModel,
                            !.badgeClasses = @ \cup {"text-yellow-600"}]]

Unparsable == [type |-> "unparsable"]

\* Response.ok
OkStatus(status) == status >= 200 /\ status <= 299

\* ---------------------------------------------------------------- actions
\* document 'DOMContentLoaded': init
DOMContentLoaded ==
    /\ page = "unloaded"
    /\ page' = "ready"
    /\ \E fault \in {"none", "getItem", "parse"} :
         LET loaded == loadLastDiagnosis(localStorage, fault)
         IN  /\ localStorage' = loaded.storage
             /\ logged' = loaded.logged
             /\ IF loaded.threw
                THEN /\ unhandled' = unhandled \cup {"init"}
                     /\ probe' = probe
                ELSE /\ unhandled' = unhandled
                     /\ probe' = [NoProbe EXCEPT !.pc = "awaitFetch"]
    /\ UNCHANGED <<dom, timers, readers, net, calls, returned, selections, lastFiles,
                   accepted, postsIssued, lastSuccess, lastStored, reloads>>

\* the user reloads the page: the document and its pending work are dropped
Reload ==
    /\ page = "ready"
    /\ reloads < MaxReloads
    /\ reloads' = reloads + 1
    /\ page' = "unloaded"
    /\ dom' = InitialDom
    /\ timers' = <<>>
    /\ readers' = {}
    /\ net' = EmptyBag
    /\ calls' = [r \in 1..Len(calls) |->
                   IF calls[r].pc = "done" THEN calls[r]
                   ELSE [calls[r] EXCEPT !.pc = "unloaded"]]
    /\ probe' = NoProbe
    /\ logged' = NothingLogged
    /\ UNCHANGED <<localStorage, returned, unhandled, selections, lastFiles,
                   accepted, postsIssued, lastSuccess, lastStored>>

\* dropZone 'dragenter' / 'dragover'
DragOver ==
    /\ page = "ready"
    /\ dom' = highlight(dom)
    /\ UNCHANGED <<page, timers, readers, net, calls, returned, probe, localStorage,
                   logged, unhandled, selections, lastFiles, accepted,
                   postsIssued, lastSuccess, lastStored, reloads>>

\* dropZone 'dragleave'
DragLeave ==
    /\ page = "ready"
    /\ dom' = unhighlight(dom)
    /\ UNCHANGED <<page, timers, readers, net, calls, returned, probe, localStorage,
                   logged, unhandled, selections, lastFiles, accepted,
                   postsIssued, lastSuccess, lastStored, reloads>>

NewCall(file) == [file |-> file.id, pc |-> "awaitFetch"]

\* a handleFiles that takes the last file of the list instead of the first
handleFilesTakesLast(d, files) ==
    /\ selections' = selections + 1
    /\ lastFiles' = files
    /\ IF Len(files) > 0 /\ validateFile(d, files[Len(files)]).ok
       THEN LET file == files[Len(files)]
                r    == Len(calls) + 1
            IN  /\ readers' = readers \cup {file.id}
                /\ dom' = showLoading(validateFile(d, file).dom)
                /\ net' = net (+) predictXrayRequests(r, file)
                /\ postsIssued' =
                       postsIssued + BagCardinality(predictXrayRequests(r, file))
                /\ calls' = Append(calls, NewCall(file))
                /\ accepted' = accepted + 1
       ELSE /\ dom' = IF Len(files) > 0
                      THEN validateFile(d, files[Len(files)]).dom ELSE d
            /\ UNCHANGED <<readers, net, postsIssued, calls, accepted>>
    /\ UNCHANGED <<page, timers, returned, probe, localStorage, logged,
                   unhandled, lastSuccess, lastStored, reloads>>

\* handleFiles on the DOM d: validateFile, showImagePreview and predictXray
\* up to its first await
handleFiles(d, files) ==
    /\ selections' = selections + 1
    /\ lastFiles' = files
    /\ IF Len(files) > 0 /\ validateFile(d, files[1]).ok
       THEN LET file == files[1]
                r    == Len(calls) + 1
            IN  /\ readers' = readers \cup {file.id}
                /\ dom' = showLoading(validateFile(d, file).dom)
                /\ net' = net (+) predictXrayRequests(r, file)
                /\ postsIssued' =
                       postsIssued + BagCardinality(predictXrayRequests(r, file))
                /\ calls' = Append(calls, NewCall(file))
                /\ accepted' = accepted + 1
       ELSE /\ dom' = IF Len(files) > 0
                      THEN validateFile(d, files[1]).dom ELSE d
            /\ UNCHANGED <<readers, net, postsIssued, calls, accepted>>
    /\ UNCHANGED <<page, timers, returned, probe, localStorage, logged,
                   unhandled, lastSuccess, lastStored, reloads>>

\* dropZone 'drop': unhighlight, then handleDrop
Drop ==
    /\ page = "ready"
    /\ selections < MaxSelections
    /\ \E files \in FileLists(selections + 1) :
         handleFiles(unhighlight(dom), files)

\* fileInput 'change': handleFileSelect
Change ==
    /\ page = "ready"
    /\ selections < MaxSelections
    /\ \E files \in FileLists(selections + 1) : handleFiles(dom, files)

\* the FileReader of showImagePreview delivers 'load', or fails
ReaderSettle ==
    /\ \E file \in readers :
         /\ readers' = readers \ {file}
         /\ \E loaded \in BOOLEAN :
              dom' = IF loaded
                     THEN [dom EXCEPT !.previewImg = file,
                                      !.imagePreviewHidden = FALSE]
                     ELSE dom
    /\ UNCHANGED <<page, timers, net, calls, returned, probe, localStorage, logged,
                   unhandled, selections, lastFiles, accepted, postsIssued,
                   lastSuccess, lastStored, reloads>>

Install(w) ==
    /\ dom' = w.dom
    /\ timers' = w.timers
    /\ localStorage' = w.storage

\* the fetch of predictXray settles: rejected (0), or a response with a status
PredictFetchSettle ==
    /\ \E m \in BagToSet(net) :
         /\ calls[m.req].pc = "awaitFetch"
         /\ net' = net (-) SetToBag({m})
         /\ \E answer \in {0} \cup Statuses :
              IF answer # 0 /\ OkStatus(answer)
              THEN /\ calls' = [calls EXCEPT ![m.req].pc = "awaitJson"]
                   /\ UNCHANGED <<dom, timers, localStorage, returned>>
              ELSE /\ Install(predictXrayRejected(World))
                   /\ calls' = [calls EXCEPT ![m.req].pc = "done"]
                   /\ returned' =
                          [call |-> m.req, body |-> <<>>,
                           outcome |-> IF answer = 0 THEN "network" ELSE "http",
                           saved |-> "none"]
    /\ UNCHANGED <<page, readers, probe, logged, unhandled, selections,
                   lastFiles, accepted, postsIssued, lastSuccess, lastStored,
                   reloads>>

\* response.json() of predictXray settles.  The clock and the storage are
\* consulted only when displayResults has returned.
PredictJsonSettle ==
    /\ \E r \in 1..Len(calls) :
         /\ calls[r].pc = "awaitJson"
         /\ calls' = [calls EXCEPT ![r].pc = "done"]
         /\ \E body \in PredictBodies \cup {Unparsable} :
              IF body = Unparsable
              THEN /\ Install(predictXrayRejected(World))
                   /\ returned' = [call |-> r, body |-> <<body>>,
                                   outcome |-> "parse", saved |-> "none"]
                   /\ UNCHANGED <<lastSuccess, lastStored>>
              ELSE \E writeOk \in BOOLEAN :
                   \E t \in IF Completes(body) = 6 /\ writeOk
                            THEN Instants ELSE {0} :
                     LET res == predictXrayResolved(World, body,
                                                    toISOString(t), writeOk)
                     IN  /\ (Completes(body) < 6 => writeOk)
                         /\ Install(res.world)
                         /\ returned' = [call |-> r, body |-> <<body>>,
                                         outcome |-> res.outcome,
                                         saved |-> res.saved]
                         /\ lastSuccess' =
                              IF res.outcome = "ok"
                              THEN <<body.value>> ELSE lastSuccess
                         /\ lastStored' =
                              IF res.saved = "written"
                              THEN << [result |-> body.value,
                                       ts |-> toISOString(t)] >>
                              ELSE lastStored
    /\ UNCHANGED <<page, readers, net, probe, logged, unhandled, selections,
                   lastFiles, accepted, postsIssued, reloads>>

\* a 100 ms timer of animateProgressBar fires
TimerFire ==
    /\ timers # <<>>
    /\ timers' = Tail(timers)
    /\ dom' = [dom EXCEPT ![Head(timers).bar] =
                  Join(NumberToString(Head(timers).percentage)) \o "%"]
    /\ UNCHANGED <<page, readers, net, calls, returned, probe, localStorage, logged,
                   unhandled, selections, lastFiles, accepted, postsIssued,
                   lastSuccess, lastStored, reloads>>

InstallProbe(res, answer, body) ==
    /\ dom' = res.dom
    /\ probe' = [pc |-> "done", answer |-> answer, body |-> body]
    /\ unhandled' = IF res.threw THEN unhandled \cup {"checkServerStatus"}
                    ELSE unhandled

\* the fetch of checkServerStatus settles
ProbeFetchSettle ==
    /\ probe.pc = "awaitFetch"
    /\ \E answer \in {0} \cup Statuses :
         IF answer # 0 /\ OkStatus(answer)
         THEN /\ probe' = [probe EXCEPT !.pc = "awaitJson", !.answer = answer]
              /\ UNCHANGED <<dom, unhandled>>
         ELSE InstallProbe(checkServerStatusCatch(dom), answer, <<>>)
    /\ UNCHANGED <<page, timers, readers, net, calls, returned, localStorage,
                   logged, selections, lastFiles, accepted, postsIssued, lastSuccess,
                   lastStored, reloads>>

\* res.json() of checkServerStatus settles
ProbeJsonSettle ==
    /\ probe.pc = "awaitJson"
    /\ \E body \in StatusBodies \cup {Unparsable} :
         IF body = Unparsable
         THEN InstallProbe(checkServerStatusCatch(dom), probe.answer, <<body>>)
         ELSE InstallProbe(checkServerStatusResolved(dom, body),
                           probe.answer, <<body>>)
    /\ UNCHANGED <<page, timers, readers, net, calls, returned, localStorage,
                   logged, selections, lastFiles, accepted, postsIssued, lastSuccess,
                   lastStored, reloads>>

\* --------------------------------------------------------- specifications
\* The upload flow: selections, the requests they start and their answers.
\* The FileReader events, the animation timers and the status probe write
\* only the preview, the bars and the badge; they are left pending here.
Next ==
    \/ DOMContentLoaded
    \/ Reload
    \/ Drop
    \/ Change
    \/ PredictFetchSettle
    \/ PredictJsonSettle

Spec == Init /\ [][Next]_vars

\* The page load with its status probe, interleaved with selections and the
\* previews they start; the prediction requests are left pending here.
NextStatus ==
    \/ DOMContentLoaded
    \/ Reload
    \/ DragOver
    \/ DragLeave
    \/ Drop
    \/ Change
    \/ ReaderSettle
    \/ ProbeFetchSettle
    \/ ProbeJsonSettle

SpecStatus == Init /\ [][NextStatus]_vars

\* The cache alone: saveLastDiagnosis applied to sample results, and the
\* page loads that read them back.
SampleResults ==
    [ predicted_class : {"Covid", "Normal"},
      confidence      : {5, 873, 1000},
      probabilities   : [Covid : {0, 42}, Pneumonia : {85}, Normal : {1000}] ]

\* line 156 with an arbitrary result of the expected shape
SaveResult ==
    /\ page = "ready"
    /\ \E result \in SampleResults, t \in Instants, writeOk \in BOOLEAN :
         LET saved == saveLastDiagnosis(localStorage, result,
                                        toISOString(t), writeOk)
         IN  /\ localStorage' = saved.storage
             /\ lastSuccess' = lastSuccess
             /\ lastStored' = IF writeOk
                              THEN << [result |-> result,
                                       ts |-> toISOString(t)] >>
                              ELSE lastStored
    /\ UNCHANGED <<page, dom, timers, readers, net, calls, returned, probe,
                   logged, unhandled, selections, lastFiles, accepted,
                   postsIssued, reloads>>

NextCache ==
    \/ DOMContentLoaded
    \/ Reload
    \/ SaveResult

SpecCache == Init /\ [][NextCache]_vars

\* The upload flow of one page load in which every request is eventually
\* answered.
NextLive ==
    \/ DOMContentLoaded
    \/ Drop
    \/ Change
    \/ PredictFetchSettle
    \/ PredictJsonSettle

LiveSpec ==
    /\ Init
    /\ [][NextLive]_vars
    /\ WF_vars(PredictFetchSettle)
    /\ WF_vars(PredictJsonSettle)

\* The upload flow of one page load together with the animation timers that
\* displayResults arms.
NextAnimation ==
    \/ DOMContentLoaded
    \/ Drop
    \/ Change
    \/ PredictFetchSettle
    \/ PredictJsonSettle
    \/ TimerFire

SpecAnimation == Init /\ [][NextAnimation]_vars

\* The upload flow of one page load together with the FileReader events of
\* the previews.
NextPreview ==
    \/ DOMContentLoaded
    \/ Drop
    \/ Change
    \/ ReaderSettle
    \/ PredictFetchSettle
    \/ PredictJsonSettle

SpecPreview == Init /\ [][NextPreview]_vars

\* ------------------------------------------------------------- properties
\* the spec's rejection rule, stated on the file alone
Disallowed(file) ==
    \/ file.type \notin {"image/png", "image/jpeg", "image/jpg"}
    \/ file.size > 10485760

Pending(r) == r <= Len(calls) /\ calls[r].pc \in {"awaitFetch", "awaitJson"}

Left(r) == r <= Len(calls) /\ calls[r].pc \in {"done", "unloaded"}

\* C1: a selection whose first file has a disallowed type or is larger than
\* 10 MiB issues no POST /predict, neither then nor under any invocation
\* recorded, and leaves the error message visible with a validation text.
C1_InvalidFileIssuesNoRequest ==
    [][ ( /\ selections' = selections + 1
          /\ Len(lastFiles') > 0
          /\ Disallowed(lastFiles'[1]) )
        => /\ net' = net
           /\ postsIssued' = postsIssued
           /\ \A r \in 1..Len(calls') : calls'[r].file # lastFiles'[1].id
           /\ ~dom'.errorMessageHidden
           /\ dom'.errorText \in {TypeMessage, SizeMessage} ]_vars

\* an oversized PNG was rejected while an earlier request is still pending
C1_Witness ==
    /\ Len(lastFiles) > 0
    /\ lastFiles[1].type = "image/png"
    /\ lastFiles[1].size > 10485760
    /\ BagCardinality(net) = 1
    /\ postsIssued = 1
    /\ ~dom.errorMessageHidden
    /\ dom.errorText = SizeMessage

\* C2: the step in which an invocation of predictXray returns leaves the
\* loading indicator hidden, however the request ended, and every pending
\* invocation returns once its request settles.
C2_LoadingHiddenOnEveryExit ==
    /\ [][ \A r \in 1..Len(calls) :
             (Pending(r) /\ calls'[r].pc = "done") => dom'.loadingHidden ]_vars
    /\ \A r \in 1..MaxSelections : Pending(r) ~> Left(r)

\* an invocation returned through an exception thrown while rendering
C2_Witness ==
    /\ returned.outcome = "render"
    /\ dom.loadingHidden
    /\ \E r \in 1..Len(calls) : calls[r].pc = "done"

\* C3: when the fetch of an invocation rejects or answers with a non-2xx
\* status, the step leaves the generic failure message visible and the
\* results section hidden.
C3_FailureShowsGenericMessage ==
    [][ (\E r \in 1..Len(calls) :
            calls[r].pc = "awaitFetch" /\ calls'[r].pc = "done")
        => /\ returned'.outcome \in {"network", "http"}
           /\ dom'.errorText = GenericMessage
           /\ ~dom'.errorMessageHidden
           /\ dom'.resultsSectionHidden ]_vars

\* an HTTP 500 arrived after an overlapping request had shown its result
C3_Witness ==
    /\ returned.outcome = "http"
    /\ dom.errorText = GenericMessage
    /\ ~dom.errorMessageHidden
    /\ dom.resultsSectionHidden
    /\ ~dom.resultCardHidden

\* C4: a selection whose first file is allowed leaves, in the same step, the
\* loading indicator visible, the result card and the error message hidden,
\* and exactly one POST /predict for that file in flight.
C4_AcceptedFileEntersLoading ==
    [][ ( /\ selections' = selections + 1
          /\ Len(lastFiles') > 0
          /\ ~Disallowed(lastFiles'[1]) )
        => /\ ~dom'.loadingHidden
           /\ dom'.resultCardHidden
           /\ dom'.errorMessageHidden
           /\ Len(calls') = Len(calls) + 1
           /\ calls'[Len(calls')].pc = "awaitFetch"
           /\ calls'[Len(calls')].file = lastFiles'[1].id
           /\ LET m == [req |-> Len(calls'), file |-> lastFiles'[1].id]
              IN  /\ CopiesIn(m, net') = 1
                  /\ \A x \in BagToSet(net') : x.file = m.file => x = m ]_vars

\* a file was accepted after an earlier selection had been rejected
C4_Witness ==
    /\ Len(lastFiles) > 0
    /\ ~Disallowed(lastFiles[1])
    /\ dom.errorText \in {TypeMessage, SizeMessage}
    /\ dom.errorMessageHidden
    /\ ~dom.loadingHidden
    /\ dom.resultCardHidden
    /\ BagCardinality(net) = 1

\* C5 as claimed: the cache is absent or holds the result of the most
\* recently completed successful prediction, with a timestamp.
C5_CacheHoldsLastSuccess ==
    /\ lastSuccess = <<>> => ~localStorage.present
    /\ lastSuccess # <<>> =>
         /\ localStorage.present
         /\ "timestamp" \in DOMAIN JSONparse(localStorage.text)
         /\ WithoutTimestamp(JSONparse(localStorage.text)) = lastSuccess[1]

\* C5 amended: the cache is absent or holds the result, with its timestamp,
\* of the most recent successful prediction whose write did not throw.
C5_CacheHoldsLastStored ==
    /\ lastStored = <<>> => ~localStorage.present
    /\ lastStored # <<>> =>
         /\ localStorage.present
         /\ JSONparse(localStorage.text)
              = WithTimestamp(lastStored[1].result, lastStored[1].ts)

\* a later successful prediction could not be written: the cache still
\* holds the earlier one
C5_Witness ==
    /\ lastSuccess # <<>>
    /\ lastStored # <<>>
    /\ lastSuccess[1] # lastStored[1].result
    /\ returned.saved = "failed"
    /\ localStorage.present

\* C6: what a page load reads back is the stored result with the same
\* predicted_class, confidence and probabilities, and a timestamp besides.
C6_RoundTrip ==
    [][ ( /\ page = "unloaded"
          /\ page' = "ready"
          /\ logged'.data # <<>> )
        => /\ lastStored # <<>>
           /\ DOMAIN logged'.data[1]
                = (DOMAIN lastStored[1].result) \cup {"timestamp"}
           /\ WithoutTimestamp(logged'.data[1]) = lastStored[1].result ]_vars

\* a result with fractional and whole percentages was read back
C6_Witness ==
    /\ logged.data # <<>>
    /\ logged.data[1].confidence = 5
    /\ logged.data[1].probabilities.Covid = 42
    /\ logged.data[1].probabilities.Normal = 1000

ProbeFailed ==
    \/ probe.answer = 0
    \/ ~OkStatus(probe.answer)
    \/ probe.body = <<Unparsable>>
    \/ probe.body = <<JNull>>

\* C7: once checkServerStatus has returned, the badge reads one of the three
\* texts, it reads 'Offline' after any failure of the probe, and no
\* exception has escaped the function.
C7_BadgeSettled ==
    probe.pc = "done" =>
        /\ dom.badgeText \in {BadgeLoaded, BadgeNoModel, BadgeOffline}
        /\ ProbeFailed => dom.badgeText = BadgeOffline
        /\ "checkServerStatus" \notin unhandled
        /\ "init" \notin unhandled

\* the probe's body was the JSON value null
C7_Witness ==
    /\ probe.pc = "done"
    /\ probe.body = <<JNull>>
    /\ dom.badgeText = BadgeOffline

\* C8: the cached value changes only in the step in which an invocation of
\* predictXray returns after a successful prediction.
C8_CacheChangesOnlyOnSuccess ==
    [][ localStorage' # localStorage
        => \E r \in 1..Len(calls) :
              /\ calls[r].pc = "awaitJson"
              /\ calls'[r].pc = "done"
              /\ returned'.outcome = "ok" ]_vars

\* a cached value survived a reload, the read at page load and a failed
\* request
C8_Witness ==
    /\ localStorage.present
    /\ reloads >= 1
    /\ logged.message = "Last diagnosis:"
    /\ returned.outcome = "http"

\* C9: as many POST /predict requests were issued as files passed
\* validation, and a request is issued only in the step of a selection.
C9_NothingRetried ==
    [][ /\ postsIssued' = accepted'
        /\ postsIssued' # postsIssued => selections' = selections + 1 ]_vars

\* two requests were issued and the later one to return failed
C9_Witness ==
    /\ postsIssued = 2
    /\ accepted = 2
    /\ returned.outcome \in {"network", "http"}
    /\ net = EmptyBag

\* C10: a write that throws after a successful prediction leaves the error
\* message as it was and the result on screen, and the invocation returns
\* normally; a read or parse that throws at page load changes nothing on
\* screen, escapes from nowhere, and init goes on to the status probe.
C10_CacheFailuresSwallowed ==
    [][ /\ ( \E r \in 1..Len(calls) :
               /\ calls[r].pc = "awaitJson"
               /\ calls'[r].pc = "done"
               /\ returned'.saved = "failed" )
           => /\ returned'.outcome = "ok"
              /\ dom'.errorMessageHidden = dom.errorMessageHidden
              /\ dom'.errorText = dom.errorText
              /\ ~dom'.resultCardHidden
              /\ ~dom'.resultsSectionHidden
              /\ unhandled' = unhandled
        /\ ( /\ page = "unloaded"
             /\ page' = "ready"
             /\ logged'.message = "Failed to load last diagnosis:" )
           => /\ dom' = dom
              /\ unhandled' = unhandled
              /\ probe'.pc = "awaitFetch" ]_vars

\* the read at page load threw, and later a write threw after a result was
\* displayed
C10_Witness ==
    /\ logged.message = "Failed to load last diagnosis:"
    /\ returned.saved = "failed"
    /\ returned.outcome = "ok"
    /\ ~dom.resultCardHidden
    /\ ~dom.resultsSectionHidden
    /\ dom.errorMessageHidden

\* the width a bar shows for a probability held in tenths of a percent
WidthOf(n) == Join(NumberToString(n)) \o "%"

\* C11: once a result has been displayed and no animation timer is pending,
\* the Covid, Pneumonia and Normal bars have the widths of the probabilities
\* of the result displayed last, however many results were displayed and
\* however their timers overlapped.
C11_BarsShowLastResult ==
    (timers = <<>> /\ lastSuccess # <<>>)
        => /\ dom.covidBar = WidthOf(lastSuccess[1].probabilities.Covid)
           /\ dom.pneumoniaBar = WidthOf(lastSuccess[1].probabilities.Pneumonia)
           /\ dom.normalBar = WidthOf(lastSuccess[1].probabilities.Normal)

\* two invocations returned, the second while the first was awaiting its
\* body; the result displayed last is ResultCovid and all timers have fired
C11_Witness ==
    /\ Len(calls) = 2
    /\ \A r \in 1..2 : calls[r].pc = "done"
    /\ returned.call = 1
    /\ returned.outcome = "ok"
    /\ lastSuccess = <<ResultCovid>>
    /\ timers = <<>>
    /\ dom.covidBar = "90%"
    /\ dom.pneumoniaBar = "6%"
    /\ dom.normalBar = "4%"

\* the result card is on screen: neither it nor the results section around
\* it carries the class 'hidden'
ResultCardVisible == ~dom.resultCardHidden /\ ~dom.resultsSectionHidden

\* C12: the error message and the result card are never on screen together,
\* whatever selections are made while a request is pending and in whatever
\* order the answers arrive.
C12_ErrorAndResultExclusive ==
    ~(~dom.errorMessageHidden /\ ResultCardVisible)

\* C13: while at least one POST /predict is unanswered the loading indicator
\* is visible; the return of one invocation does not hide it while another
\* is still waiting.
C13_LoadingWhilePending ==
    (\E r \in 1..Len(calls) : Pending(r)) => ~dom.loadingHidden

\* every invocation of predictXray has returned and every FileReader has
\* delivered its event
AllSettled ==
    /\ Len(calls) > 0
    /\ \A r \in 1..Len(calls) : calls[r].pc = "done"
    /\ readers = {}

\* C14: once everything has settled, what the page shows belongs to the file
\* accepted last: a result card on screen and a cache entry written by the
\* invocation that returned last are those of the last invocation, and a
\* preview on screen is that of its file, in whatever order the answers and
\* the FileReader events arrived.
C14_EverythingBelongsToLastFile ==
    AllSettled =>
        /\ ResultCardVisible => returned.call = Len(calls)
        /\ returned.saved = "written" => returned.call = Len(calls)
        /\ ~dom.imagePreviewHidden => dom.previewImg = calls[Len(calls)].file

\* two files were accepted and the answer to the first arrived last: the
\* result on screen, the cache and the preview are those of the first file
C14_Witness ==
    /\ AllSettled
    /\ Len(calls) = 2
    /\ returned.call = 1
    /\ returned.outcome = "ok"
    /\ returned.saved = "written"
    /\ ResultCardVisible
    /\ localStorage.present
    /\ WithoutTimestamp(JSONparse(localStorage.text)) = returned.body[1].value
    /\ dom.previewImg = calls[1].file

\* a body the page cannot render: not JSON, or JSON without a confidence or
\* without one of the three probabilities
Malformed(body) ==
    \/ body.type \in {"unparsable", "null"}
    \/ /\ body.type = "object"
       /\ \/ "confidence" \notin DOMAIN body.value
          \/ "probabilities" \notin DOMAIN body.value
          \/ {"Covid", "Pneumonia", "Normal"}
                 \ DOMAIN body.value.probabilities # {}

\* C15: when the body of a 2xx answer turns out malformed, the invocation
\* ends as a failure: the generic message is set and visible, the result card
\* is not on screen and does not lose 'hidden', the value under
\* 'lastDiagnosis' is the one it was, and the loading indicator is hidden.
C15_MalformedBodyIsFailure ==
    [][ ( \E r \in 1..Len(calls) :
            /\ calls[r].pc = "awaitJson"
            /\ calls'[r].pc = "done"
            /\ returned'.call = r
            /\ Malformed(returned'.body[1]) )
        => /\ dom'.errorText = GenericMessage
           /\ ~dom'.errorMessageHidden
           /\ ~ResultCardVisible'
           /\ dom.resultCardHidden => dom'.resultCardHidden
           /\ localStorage' = localStorage
           /\ dom'.loadingHidden ]_vars

\* a 2xx answer without the Pneumonia probability arrived while the cache
\* held an earlier result: the texts filled before the throw are on the
\* hidden card, the generic error is shown, the cache is the earlier one
C15_Witness ==
    /\ returned.body = <<JObject(NoPneumonia)>>
    /\ returned.outcome = "render"
    /\ dom.covidProb = "4.2%"
    /\ dom.resultCardHidden
    /\ dom.errorText = GenericMessage
    /\ ~dom.errorMessageHidden
    /\ dom.loadingHidden
    /\ localStorage.present
    /\ lastStored # <<>>
    /\ lastStored[1].result = ResultCovid

\* C16: a selection is handled through its first file only.  It issues at
\* most one POST /predict, exactly when the list is not empty and its first
\* file is allowed, and then for that file; no later file of the list gets a
\* request, an invocation or a preview.  An empty list leaves every element
\* as it was apart from the drop zone's highlight, which the drop listener
\* removes before handleFiles runs, and starts nothing.
C16_OnlyFirstFileHandled ==
    [][ selections' = selections + 1
        => /\ postsIssued' <= postsIssued + 1
           /\ postsIssued' = postsIssued + 1
                 <=> (Len(lastFiles') > 0 /\ ~Disallowed(lastFiles'[1]))
           /\ postsIssued' = postsIssued + 1
                 => /\ calls' = Append(calls, [file |-> lastFiles'[1].id,
                                               pc |-> "awaitFetch"])
                    /\ net' = net (+) SetToBag({[req |-> Len(calls'),
                                                 file |-> lastFiles'[1].id]})
                    /\ readers' = readers \cup {lastFiles'[1].id}
           /\ postsIssued' = postsIssued
                 => /\ net' = net
                    /\ calls' = calls
                    /\ readers' = readers
           /\ \A i \in 2..Len(lastFiles') :
                 /\ lastFiles'[i].id \notin readers'
                 /\ \A r \in 1..Len(calls') :
                       calls'[r].file # lastFiles'[i].id
                 /\ \A m \in BagToSet(net') : m.file # lastFiles'[i].id
           /\ Len(lastFiles') = 0
                 => /\ [dom' EXCEPT !.dragover = dom.dragover] = dom
                    /\ timers' = timers
                    /\ localStorage' = localStorage ]_vars

\* a PNG and a PDF were selected together and nothing has settled yet: one
\* request, one invocation and one preview, all for the PNG
C16_Witness ==
    /\ Len(lastFiles) = 2
    /\ ~Disallowed(lastFiles[1])
    /\ Disallowed(lastFiles[2])
    /\ postsIssued = 1
    /\ calls = <<[file |-> lastFiles[1].id, pc |-> "awaitFetch"]>>
    /\ net = SetToBag({[req |-> 1, file |-> lastFiles[1].id]})
    /\ readers = {lastFiles[1].id}
    /\ ~dom.loadingHidden

====
